---- MODULE Spec2Model ----
(***************************************************************************)
(* Round state machine of the hand-gesture rock-paper-scissors game: the   *)
(* App component (state hooks, effects, timers, button handlers) and the   *)
(* gesture source it polls.                                                *)
(*                                                                         *)
(* React model.  A handler or timer callback runs to completion and its    *)
(* state updates are committed as one batch; the committed state is a      *)
(* state of the model.  The effects whose dependencies changed in that     *)
(* commit run in the next step (FlushEffects: cleanups, then bodies, in    *)
(* source order); React flushes them before it handles the next event, so  *)
(* no other action is enabled while an effect is outstanding.              *)
(*                                                                         *)
(* Time is discrete, one unit = 250 ms.  A pending timer holds the number  *)
(* of units left before it is due; time does not advance past a due timer. *)
(***************************************************************************)
EXTENDS Integers, FiniteSets, Sequences, TLC

\* ---- types.ts ----------------------------------------------------------
GameStates == {"IDLE", "COUNTDOWN", "PLAYING", "RESULT", "GAME_OVER"}

Gesture == {"NONE", "ROCK", "PAPER", "SCISSORS"}

Winners == {"player", "bot", "draw", "invalid"}

\* ---- constants ---------------------------------------------------------
WINNING_SCORE == 3

CountdownStart == 3

\* setInterval(..., 1000): four units of 250 ms
CountdownPeriod == 4

\* setTimeout(..., 500): two units of 250 ms
CaptureDelay == 2

\* value of a timer handle that is not pending
NoTimer == -1

\* ---- bounds ------------------------------------------------------------
\* the phase clock stops the model's time at MaxClock units in one phase
MaxClock == 14

\* a sprite starts a texture load only while fewer than MaxLoads are in flight
MaxLoads == 3

VARIABLES
  gameState,        \* useState<GameState>
  score,            \* useState<Score>
  playerGesture,    \* useState<Gesture>, written by the detection loop
  botGesture,       \* useState<Gesture>
  gameResult,       \* useState<GameResult | null>
  countdown,        \* useState<number>
  isModelLoading,   \* useState(true)
  permissionGranted,\* useState(false)
  error,            \* useState<string | null>, TRUE when a message is set
  initPc,           \* position of the asynchronous init()/startCamera()
  timer,            \* the countdown effect's setInterval handle
  timeout,          \* the playing effect's setTimeout handle
  timeoutGesture,   \* playerGesture closed over by the pending timeout callback
  depGameState,     \* gameState of the last render whose effects have run
  depPlayerGesture, \* playerGesture of the last render whose effects have run
  scoreChanged,     \* setScore produced a new object since effects last ran
  phaseClock,       \* history: time units spent in the current timed phase
  tickCount,        \* history: ticker firings since the last playRound
  captureCount,     \* history: capture firings since the last playRound
  staleTimer,       \* history: a ticker created before the last playRound is pending
  resetAt,          \* history: countdown value a resetGame interrupted, 0 if none
  wasReset,         \* history: resetGame has run
  dwP, dwB, dwOut,  \* arguments and result of a direct determineWinner call
  textures,         \* Scene3D texturesRef: per gesture url, the cached texture kind
  playerMap,        \* playerSprite.material.map
  botMap,           \* botSprite.material.map
  playerLoads,      \* loads the player sprite's updateSprite calls have in flight
  botLoads,         \* loads the bot sprite's updateSprite calls have in flight
  depBotGesture,    \* botGesture of the last render whose Scene3D effect has run
  animateCounting,  \* isCountingDown closed over by the mount effect's animate
  frameTick,        \* parity of the animation frames rendered (timeRef)
  shake             \* the last frame applied the countdown shake

sessionVars == <<gameState, score, playerGesture, botGesture, gameResult, countdown>>

cameraVars == <<isModelLoading, permissionGranted, error, initPc>>

timerVars == <<timer, timeout, timeoutGesture>>

depVars == <<depGameState, depPlayerGesture, scoreChanged>>

historyVars == <<phaseClock, tickCount, captureCount, staleTimer, resetAt, wasReset>>

callVars == <<dwP, dwB, dwOut>>

textureVars == <<textures, playerMap, botMap, playerLoads, botLoads, depBotGesture>>

frameVars == <<animateCounting, frameTick, shake>>

sceneVars == <<textureVars, frameVars>>

vars == <<sessionVars, cameraVars, timerVars, depVars, historyVars, callVars, sceneVars>>

\* ---- values ------------------------------------------------------------
NullResult == [winner |-> "null", message |-> ""]

Moves == {"ROCK", "PAPER", "SCISSORS"}

\* determineWinner without its first test (p === Gesture.NONE)
determineWinnerNoNoneTest(p, b) ==
  IF p = b THEN "draw"
  ELSE IF \/ (p = "ROCK" /\ b = "SCISSORS")
          \/ (p = "PAPER" /\ b = "ROCK")
          \/ (p = "SCISSORS" /\ b = "PAPER")
       THEN "player"
  ELSE "bot"

\* const determineWinner = useCallback((p, b) => ...)
determineWinner(p, b) ==
  IF p = "NONE" THEN "invalid"
  ELSE IF p = b THEN "draw"
  ELSE IF \/ (p = "ROCK" /\ b = "SCISSORS")
          \/ (p = "PAPER" /\ b = "ROCK")
          \/ (p = "SCISSORS" /\ b = "PAPER")
       THEN "player"
  ELSE "bot"

\* the msg chosen by the capture callback
ResultMessage(winner) ==
  IF winner = "invalid" THEN "No Hand Detected"
  ELSE IF winner = "player" THEN "You Win!"
  ELSE IF winner = "bot" THEN "Bot Wins!"
  ELSE "Draw!"

\* the capture callback with the final else branch also scoring for the player
ScoreAfterCountingDraws(s, winner) ==
  IF winner = "bot" THEN [s EXCEPT !.bot = s.bot + 1]
  ELSE IF winner = "invalid" THEN s
  ELSE [s EXCEPT !.player = s.player + 1]

\* the setScore updaters of the capture callback
ScoreAfter(s, winner) ==
  IF winner = "player" THEN [s EXCEPT !.player = s.player + 1]
  ELSE IF winner = "bot" THEN [s EXCEPT !.bot = s.bot + 1]
  ELSE s

\* no effect has a changed dependency: the last commit's effects have run
Settled ==
  /\ depGameState = gameState
  /\ depPlayerGesture = playerGesture
  /\ ~scoreChanged

\* the game panels are rendered only in the last branch of the
\* error ? ... : isModelLoading ? ... : (...) expression
PanelsVisible == ~error /\ ~isModelLoading

\* the start button rendered in every phase
StartButtonAlwaysVisible == PanelsVisible

\* "Start Game" (IDLE panel) or "Next Round"/"Try Again" (RESULT panel) is rendered
StartButtonVisible ==
  /\ PanelsVisible
  /\ \/ gameState = "IDLE"
     \/ (gameState = "RESULT" /\ gameResult # NullResult)

\* "Play Again" (GAME_OVER panel) is rendered
ResetButtonVisible == PanelsVisible /\ gameState = "GAME_OVER"

\* ---- Scene3D values ----------------------------------------------------
\* material.map of a sprite before any texture was applied
NoTexture == [g |-> "none", kind |-> "none"]

\* a loaded image (load callback) or a canvas fallback (error callback)
TextureKinds == {"image", "fallback"}

NoLoads == [g \in Gesture |-> 0]

\* number of loads in flight in one sprite's record
RECURSIVE SumLoads(_, _)
SumLoads(loads, gs) ==
  IF gs = {} THEN 0
  ELSE LET g == CHOOSE x \in gs : TRUE
       IN loads[g] + SumLoads(loads, gs \ {g})

Pending(loads) == SumLoads(loads, Gesture)

\* ---- initial state -----------------------------------------------------
InitSession ==
  /\ gameState = "IDLE"
  /\ score = [player |-> 0, bot |-> 0]
  /\ playerGesture = "NONE"
  /\ botGesture = "NONE"
  /\ gameResult = NullResult
  /\ countdown = CountdownStart
  /\ isModelLoading = TRUE
  /\ permissionGranted = FALSE
  /\ error = FALSE
  /\ initPc = "initialize"
  /\ timer = NoTimer
  /\ timeout = NoTimer
  /\ timeoutGesture = "NONE"
  /\ depGameState = "IDLE"
  /\ depPlayerGesture = "NONE"
  /\ scoreChanged = FALSE
  /\ phaseClock = 0
  /\ tickCount = 0
  /\ captureCount = 0
  /\ staleTimer = FALSE
  /\ resetAt = 0
  /\ wasReset = FALSE
  /\ textures = [g \in Gesture |-> "none"]
  /\ playerMap = NoTexture
  /\ botMap = NoTexture
  /\ playerLoads = [NoLoads EXCEPT !["NONE"] = 2]
  /\ botLoads = [NoLoads EXCEPT !["NONE"] = 2]
  /\ depBotGesture = "NONE"
  /\ animateCounting = (gameState = "COUNTDOWN")
  /\ frameTick = 0
  /\ shake = FALSE

Init ==
  /\ InitSession
  /\ dwP = "NONE"
  /\ dwB = "NONE"
  /\ dwOut = "null"

\* ---- initialisation and camera ----------------------------------------
\* init(): visionService.initialize() resolved; startCamera() begins
InitializeResolved ==
  /\ initPc = "initialize"
  /\ isModelLoading' = FALSE
  /\ error' = FALSE
  /\ initPc' = "camera"
  /\ UNCHANGED <<permissionGranted, sessionVars, timerVars, depVars, historyVars, callVars, sceneVars>>

\* init(): visionService.initialize() threw
InitializeRejected ==
  /\ initPc = "initialize"
  /\ error' = TRUE
  /\ isModelLoading' = FALSE
  /\ initPc' = "done"
  /\ UNCHANGED <<permissionGranted, sessionVars, timerVars, depVars, historyVars, callVars, sceneVars>>

\* startCamera(): getUserMedia resolved and the video reported its metadata
CameraGranted ==
  /\ initPc = "camera"
  /\ permissionGranted' = TRUE
  /\ initPc' = "done"
  /\ UNCHANGED <<isModelLoading, error, sessionVars, timerVars, depVars, historyVars, callVars, sceneVars>>

\* startCamera(): getUserMedia rejected
CameraRejected ==
  /\ initPc = "camera"
  /\ error' = TRUE
  /\ permissionGranted' = FALSE
  /\ initPc' = "done"
  /\ UNCHANGED <<isModelLoading, sessionVars, timerVars, depVars, historyVars, callVars, sceneVars>>

\* the "Retry Camera" button, rendered while error is set
RetryCamera ==
  /\ error
  /\ initPc = "done"
  /\ error' = FALSE
  /\ initPc' = "camera"
  /\ UNCHANGED <<isModelLoading, permissionGranted, sessionVars, timerVars, depVars, historyVars, callVars, sceneVars>>

\* ---- gesture source ----------------------------------------------------
\* detectLoop: one animation frame; visionService.detect returns any gesture
DetectFrame ==
  /\ Settled
  /\ permissionGranted /\ ~isModelLoading
  /\ \E g \in Gesture : playerGesture' = g
  /\ UNCHANGED <<gameState, score, botGesture, gameResult, countdown>>
  /\ UNCHANGED <<cameraVars, timerVars, depVars, historyVars, callVars, sceneVars>>

\* ---- button handlers ---------------------------------------------------
\* the body of playRound
PlayRoundBody ==
  /\ gameResult' = NullResult
  /\ gameState' = "COUNTDOWN"
  /\ countdown' = CountdownStart
  /\ phaseClock' = 0
  /\ tickCount' = 0
  /\ captureCount' = 0
  /\ staleTimer' = (timer # NoTimer)
  /\ UNCHANGED <<score, playerGesture, botGesture, resetAt, wasReset>>
  /\ UNCHANGED <<cameraVars, timerVars, depVars, callVars, sceneVars>>

\* onClick={playRound} of the button the current panel renders
PlayRound ==
  /\ Settled
  /\ StartButtonVisible
  /\ PlayRoundBody

\* resetGame without setBotGesture(Gesture.NONE)
ResetGameBodyKeepingBot ==
  /\ score' = [player |-> 0, bot |-> 0]
  /\ scoreChanged' = TRUE
  /\ gameState' = "IDLE"
  /\ playerGesture' = "NONE"
  /\ botGesture' = botGesture
  /\ gameResult' = NullResult
  /\ phaseClock' = 0
  /\ wasReset' = TRUE
  /\ resetAt' = IF gameState = "COUNTDOWN" THEN countdown ELSE 0
  /\ UNCHANGED <<countdown, depGameState, depPlayerGesture>>
  /\ UNCHANGED <<tickCount, captureCount, staleTimer>>
  /\ UNCHANGED <<cameraVars, timerVars, callVars, sceneVars>>

\* the body of resetGame
ResetGameBody ==
  /\ score' = [player |-> 0, bot |-> 0]
  /\ scoreChanged' = TRUE
  /\ gameState' = "IDLE"
  /\ playerGesture' = "NONE"
  /\ botGesture' = "NONE"
  /\ gameResult' = NullResult
  /\ phaseClock' = 0
  /\ wasReset' = TRUE
  /\ resetAt' = IF gameState = "COUNTDOWN" THEN countdown ELSE 0
  /\ UNCHANGED <<countdown, depGameState, depPlayerGesture>>
  /\ UNCHANGED <<tickCount, captureCount, staleTimer>>
  /\ UNCHANGED <<cameraVars, timerVars, callVars, sceneVars>>

\* onClick={resetGame} of the GAME_OVER panel
ResetGame ==
  /\ Settled
  /\ ResetButtonVisible
  /\ ResetGameBody

\* resetGame called in any phase (the function itself has no guard)
ResetGameAnywhere ==
  /\ Settled
  /\ ResetGameBody

\* ---- timers --------------------------------------------------------------
\* the updater testing prev <= 0
CountdownDoneAtZero(prev) == prev <= 0

\* the test of the setCountdown updater: prev <= 1
CountdownDone(prev) == prev <= 1

\* the updater without its clearInterval(timer)
TimerAfterTickNoClear(prev) == CountdownPeriod

\* the handle after the updater ran: clearInterval(timer) when done, else re-armed
TimerAfterTick(prev) == IF CountdownDone(prev) THEN NoTimer ELSE CountdownPeriod

\* the setInterval callback of the countdown effect
IntervalFire ==
  /\ Settled
  /\ timer = 0
  /\ countdown' = IF CountdownDone(countdown) THEN 3 ELSE countdown - 1
  /\ gameState' = IF CountdownDone(countdown) THEN "PLAYING" ELSE gameState
  /\ timer' = TimerAfterTick(countdown)
  /\ tickCount' = tickCount + 1
  /\ phaseClock' = IF CountdownDone(countdown) THEN 0 ELSE phaseClock
  /\ staleTimer' = IF CountdownDone(countdown) THEN FALSE ELSE staleTimer
  /\ UNCHANGED <<score, playerGesture, botGesture, gameResult>>
  /\ UNCHANGED <<timeout, timeoutGesture, captureCount, resetAt, wasReset>>
  /\ UNCHANGED <<cameraVars, depVars, callVars, sceneVars>>

\* the setTimeout callback of the playing effect; botMove is the Math.random draw
TimeoutFire ==
  /\ Settled
  /\ timeout = 0
  /\ \E botMove \in Moves :
       LET winner == determineWinner(timeoutGesture, botMove) IN
         /\ botGesture' = botMove
         /\ gameState' = "RESULT"
         /\ score' = ScoreAfter(score, winner)
         /\ scoreChanged' = (winner \in {"player", "bot"})
         /\ gameResult' = [winner |-> winner, message |-> ResultMessage(winner)]
  /\ timeout' = NoTimer
  /\ captureCount' = captureCount + 1
  /\ phaseClock' = 0
  /\ UNCHANGED <<playerGesture, countdown, timer, timeoutGesture>>
  /\ UNCHANGED <<depGameState, depPlayerGesture, tickCount, staleTimer, resetAt, wasReset>>
  /\ UNCHANGED <<cameraVars, callVars, sceneVars>>

\* 250 ms pass; a due timer fires before time moves on
AdvanceTime ==
  /\ Settled
  /\ timer # 0 /\ timeout # 0
  /\ phaseClock < MaxClock
  /\ timer' = IF timer = NoTimer THEN NoTimer ELSE timer - 1
  /\ timeout' = IF timeout = NoTimer THEN NoTimer ELSE timeout - 1
  /\ phaseClock' = IF gameState \in {"COUNTDOWN", "PLAYING"}
                   THEN phaseClock + 1 ELSE phaseClock
  /\ UNCHANGED <<sessionVars, cameraVars, depVars, callVars, sceneVars>>
  /\ UNCHANGED <<timeoutGesture, tickCount, captureCount, staleTimer, resetAt, wasReset>>

\* ---- effects -----------------------------------------------------------
\* useEffect(..., [gameState]): a dependency differs from the last run
CountdownEffectChanged == gameState # depGameState

\* the playing effect with the dependency list [gameState, determineWinner]
PlayingEffectChangedOnPhaseOnly == gameState # depGameState

\* useEffect(..., [gameState, playerGesture, determineWinner])
PlayingEffectChanged ==
  gameState # depGameState \/ playerGesture # depPlayerGesture

\* the countdown effect returning no cleanup
TimerWithoutCleanup == timer

\* return () => clearInterval(timer), registered by a run in COUNTDOWN
TimerAfterCleanup ==
  IF CountdownEffectChanged /\ depGameState = "COUNTDOWN" THEN NoTimer ELSE timer

\* return () => clearTimeout(timeout), registered by a run in PLAYING
TimeoutAfterCleanup ==
  IF PlayingEffectChanged /\ depGameState = "PLAYING" THEN NoTimer ELSE timeout

\* the countdown effect without setBotGesture(Gesture.NONE)
BotGestureKept == botGesture

\* the botGesture the countdown effect's body leaves
BotGestureAfterCountdownEffect == "NONE"

\* the threshold tested with > instead of >=
ThresholdExceeded(s) == s.player > WINNING_SCORE \/ s.bot > WINNING_SCORE

\* the threshold tested on the player's score only
ThresholdPlayerOnly(s) == s.player >= WINNING_SCORE

\* score.player >= WINNING_SCORE || score.bot >= WINNING_SCORE
ThresholdReached(s) == s.player >= WINNING_SCORE \/ s.bot >= WINNING_SCORE

\* App's passive effects of one commit: all cleanups, then the three bodies
AppEffects ==
  /\ ~Settled
  /\ LET runCountdown == CountdownEffectChanged /\ gameState = "COUNTDOWN"
         runPlaying == PlayingEffectChanged /\ gameState = "PLAYING"
         runOver == scoreChanged /\ ThresholdReached(score)
     IN /\ timer' = IF runCountdown THEN CountdownPeriod ELSE TimerAfterCleanup
        /\ timeout' = IF runPlaying THEN CaptureDelay ELSE TimeoutAfterCleanup
        /\ timeoutGesture' = IF runPlaying THEN playerGesture ELSE timeoutGesture
        /\ botGesture' = IF runCountdown THEN BotGestureAfterCountdownEffect
                         ELSE botGesture
        /\ gameResult' = IF runCountdown THEN NullResult ELSE gameResult
        /\ gameState' = IF runOver THEN "GAME_OVER" ELSE gameState
        /\ phaseClock' = IF runOver THEN 0 ELSE phaseClock
        /\ staleTimer' = IF runCountdown \/ TimerAfterCleanup = NoTimer
                         THEN FALSE ELSE staleTimer
  /\ depGameState' = gameState
  /\ depPlayerGesture' = playerGesture
  /\ scoreChanged' = FALSE
  /\ UNCHANGED <<score, playerGesture, countdown, tickCount, captureCount, resetAt, wasReset>>
  /\ UNCHANGED <<cameraVars, callVars>>

\* the effects of one commit, Scene3D's texture state left aside
FlushEffects == AppEffects /\ UNCHANGED sceneVars

\* ---- Scene3D textures ---------------------------------------------------
\* updateSprite(sprite, gesture): apply the cached texture, else start a load
UpdateSprite(map, loads, g) ==
  IF textures[g] # "none"
  THEN [map |-> [g |-> g, kind |-> textures[g]], loads |-> loads]
  ELSE [map |-> map, loads |-> [loads EXCEPT ![g] = @ + 1]]

\* the two gesture effects of Scene3D for one commit:
\* useEffect(..., [playerGesture]) and useEffect(..., [botGesture])
SceneEffects ==
  LET playerRuns == playerGesture # depPlayerGesture
      botRuns == botGesture # depBotGesture
      p == UpdateSprite(playerMap, playerLoads, playerGesture)
      b == UpdateSprite(botMap, botLoads, botGesture)
  IN /\ (playerRuns /\ textures[playerGesture] = "none") => Pending(playerLoads) < MaxLoads
     /\ (botRuns /\ textures[botGesture] = "none") => Pending(botLoads) < MaxLoads
     /\ playerMap' = IF playerRuns THEN p.map ELSE playerMap
     /\ playerLoads' = IF playerRuns THEN p.loads ELSE playerLoads
     /\ botMap' = IF botRuns THEN b.map ELSE botMap
     /\ botLoads' = IF botRuns THEN b.loads ELSE botLoads
     /\ depBotGesture' = botGesture
     /\ UNCHANGED textures

\* the effects of one commit, App's and Scene3D's
FlushSceneEffects == AppEffects /\ SceneEffects /\ UNCHANGED frameVars

\* loader.load callbacks: a load of the player sprite completes, with the
\* image (onLoad) or with the canvas fallback (onError)
PlayerLoadComplete ==
  \E g \in Gesture, kind \in TextureKinds :
    /\ playerLoads[g] > 0
    /\ playerLoads' = [playerLoads EXCEPT ![g] = @ - 1]
    /\ textures' = [textures EXCEPT ![g] = kind]
    /\ playerMap' = [g |-> g, kind |-> kind]
    /\ UNCHANGED <<botMap, botLoads, depBotGesture, frameVars>>
    /\ UNCHANGED <<sessionVars, cameraVars, timerVars, depVars, historyVars, callVars>>

\* the same for a load of the bot sprite
BotLoadComplete ==
  \E g \in Gesture, kind \in TextureKinds :
    /\ botLoads[g] > 0
    /\ botLoads' = [botLoads EXCEPT ![g] = @ - 1]
    /\ textures' = [textures EXCEPT ![g] = kind]
    /\ botMap' = [g |-> g, kind |-> kind]
    /\ UNCHANGED <<playerMap, playerLoads, depBotGesture, frameVars>>
    /\ UNCHANGED <<sessionVars, cameraVars, timerVars, depVars, historyVars, callVars>>

\* ---- Scene3D animation loop ---------------------------------------------
\* animate(time): one frame of the loop installed by the mount effect
AnimateFrame ==
  /\ Settled
  /\ frameTick' = 1 - frameTick
  /\ shake' = animateCounting
  /\ UNCHANGED <<sessionVars, cameraVars, timerVars, depVars, historyVars, callVars>>
  /\ UNCHANGED <<textureVars, animateCounting>>

\* ---- direct call of the resolution function ----------------------------
DetermineWinnerCall ==
  /\ dwOut = "null"
  /\ dwOut' = determineWinner(dwP, dwB)
  /\ UNCHANGED <<dwP, dwB, sessionVars, cameraVars, timerVars, depVars, historyVars, sceneVars>>

\* ---- specifications ----------------------------------------------------
Next ==
  \/ InitializeResolved
  \/ InitializeRejected
  \/ CameraGranted
  \/ CameraRejected
  \/ RetryCamera
  \/ DetectFrame
  \/ PlayRound
  \/ ResetGame
  \/ IntervalFire
  \/ TimeoutFire
  \/ AdvanceTime
  \/ FlushEffects
  \/ AnimateFrame

\* the program as the rendered buttons drive it
Spec == Init /\ [][Next]_vars

NextAnyReset == Next \/ ResetGameAnywhere

\* the same, with resetGame callable in every phase
SpecAnyReset == Init /\ [][NextAnyReset]_vars

InitResolve ==
  /\ InitSession
  /\ dwP \in Gesture
  /\ dwB \in Gesture
  /\ dwOut = "null"

NextResolve == Next \/ DetermineWinnerCall

\* the program next to a caller of determineWinner with arbitrary arguments
SpecResolve == InitResolve /\ [][NextResolve]_vars

NextScene ==
  \/ InitializeResolved
  \/ InitializeRejected
  \/ CameraGranted
  \/ CameraRejected
  \/ RetryCamera
  \/ DetectFrame
  \/ FlushSceneEffects
  \/ PlayerLoadComplete
  \/ BotLoadComplete

\* Scene3D's textures under the gesture props of an App left in IDLE
SpecScene == Init /\ [][NextScene]_vars

TypeOK ==
  /\ gameState \in GameStates
  /\ score \in [player : 0..WINNING_SCORE, bot : 0..WINNING_SCORE]
  /\ playerGesture \in Gesture
  /\ botGesture \in Gesture
  /\ gameResult = NullResult \/ gameResult.winner \in Winners
  /\ countdown \in 1..CountdownStart
  /\ timer \in {NoTimer} \cup 0..CountdownPeriod
  /\ timeout \in {NoTimer} \cup 0..CaptureDelay
  /\ phaseClock \in 0..MaxClock

\* ---- properties --------------------------------------------------------
ZeroScore == [player |-> 0, bot |-> 0]

\* the outcome table of the resolution rule, in its priority order
RuleOutcome(p, b) ==
  CASE p = "NONE" -> "invalid"
    [] p # "NONE" /\ p = b -> "draw"
    [] p # "NONE" /\ p # b
         /\ <<p, b>> \in {<<"ROCK", "SCISSORS">>, <<"PAPER", "ROCK">>,
                          <<"SCISSORS", "PAPER">>} -> "player"
    [] OTHER -> "bot"

\* a step in which the capture timer's callback ran
CaptureStep == captureCount' = captureCount + 1

\* C1: for each of the 16 gesture pairs a call of determineWinner returns the
\* outcome of the rule: Invalid when the player gesture is None, else Draw on
\* equal gestures, else PlayerWin for (Rock,Scissors), (Paper,Rock),
\* (Scissors,Paper), else BotWin; the call changes nothing but its result.
C1_ResolveTotal ==
  /\ dwOut # "null" => dwOut = RuleOutcome(dwP, dwB)
  /\ dwOut \in Winners \cup {"null"}

C1_Witness == dwP = "NONE" /\ dwB = "NONE" /\ dwOut = "invalid"

\* C2: the score changes only in a capture with outcome PlayerWin or BotWin,
\* which adds exactly 1 to the winner's counter and leaves the other; a capture
\* with outcome Draw or Invalid leaves both; the only other change is reset
\* setting both counters to 0.
C2_ScoreChange ==
  [][/\ CaptureStep =>
          score' = CASE gameResult'.winner = "player" ->
                          [player |-> score.player + 1, bot |-> score.bot]
                     [] gameResult'.winner = "bot" ->
                          [player |-> score.player, bot |-> score.bot + 1]
                     [] OTHER -> score
     /\ (~CaptureStep /\ score' # score) =>
          (score' = ZeroScore /\ gameState' = "IDLE")]_vars

C2_Witness ==
  /\ gameState = "RESULT"
  /\ gameResult.winner = "draw"
  /\ score = [player |-> 1, bot |-> 1]

\* C3: once a score has reached WINNING_SCORE the next phase change lands in
\* GAME_OVER with the score untouched, GAME_OVER and the score then stay until
\* a reset, and no round is started in between.
C3_GameOverSticks ==
  [][/\ ((score.player >= 3 \/ score.bot >= 3) /\ gameState # "GAME_OVER") =>
          /\ score' = score
          /\ gameState' \in {gameState, "GAME_OVER"}
     /\ gameState = "GAME_OVER" =>
          \/ (gameState' = "GAME_OVER" /\ score' = score)
          \/ (gameState' = "IDLE" /\ score' = ZeroScore)
     /\ (score.player >= 3 \/ score.bot >= 3) => gameState' # "COUNTDOWN"]_vars

C3_Witness ==
  /\ gameState = "GAME_OVER"
  /\ score = [player |-> 3, bot |-> 2]
  /\ Settled

\* C4: a round goes IDLE (or RESULT) -> COUNTDOWN -> PLAYING -> RESULT; the
\* countdown shows 3, 2, 1, the ticker fires exactly 3 times and the capture
\* timer exactly once per round.
C4_RoundSequence ==
  /\ [](/\ gameState = "COUNTDOWN" =>
             (countdown \in {3, 2, 1} /\ tickCount = 3 - countdown /\ captureCount = 0)
        /\ gameState = "PLAYING" => (tickCount = 3 /\ captureCount = 0)
        /\ gameState \in {"RESULT", "GAME_OVER"} => (tickCount = 3 /\ captureCount = 1))
  /\ [][gameState' # gameState =>
          <<gameState, gameState'>> \in
             {<<"IDLE", "COUNTDOWN">>, <<"RESULT", "COUNTDOWN">>,
              <<"COUNTDOWN", "PLAYING">>, <<"PLAYING", "RESULT">>,
              <<"RESULT", "GAME_OVER">>, <<"GAME_OVER", "IDLE">>}]_vars

C4_Witness ==
  /\ gameState = "RESULT"
  /\ score = ZeroScore
  /\ tickCount = 3
  /\ captureCount = 1
  /\ Settled

\* C5: while the phase is PLAYING the capture stays due exactly CaptureDelay
\* after the entry into PLAYING, whatever the polled gesture does: a gesture
\* change neither postpones nor restarts the capture timer.
C5_CaptureAtFixedDelay ==
  (gameState = "PLAYING" /\ Settled) => phaseClock + timeout = CaptureDelay

\* C6: no round starts while a ticker of an earlier round is still pending;
\* in COUNTDOWN the value shown is 3 minus the ticks of this round's own
\* ticker, whose k-th tick is due k periods after the round started; so after
\* a reset at countdown 2 and a new startRound the old ticker changes nothing.
C6_NoStaleTicker ==
  /\ ~staleTimer
  /\ (gameState = "COUNTDOWN" /\ Settled) =>
       /\ timer # NoTimer
       /\ countdown = CountdownStart - tickCount
       /\ phaseClock + timer = CountdownPeriod * (tickCount + 1)

C6_Witness ==
  /\ resetAt = 2
  /\ gameState = "COUNTDOWN"
  /\ countdown = 2
  /\ tickCount = 1
  /\ Settled

C9_BotNoneOutsideRound ==
  gameState \in {"IDLE", "COUNTDOWN", "GAME_OVER"} => botGesture = "NONE"

\* C9 amended: botGesture is NONE in IDLE and PLAYING, and in COUNTDOWN once
\* the countdown effect has run; in GAME_OVER it is the bot's move of the
\* deciding round.
C9_BotNoneAmended ==
  /\ gameState \in {"IDLE", "PLAYING"} => botGesture = "NONE"
  /\ (gameState = "COUNTDOWN" /\ Settled) => botGesture = "NONE"
  /\ gameState = "GAME_OVER" => botGesture \in Moves

C9_Witness ==
  /\ gameState = "COUNTDOWN"
  /\ Settled
  /\ botGesture = "NONE"
  /\ score.bot = 1

\* C10: the capture takes the player gesture current at that moment, draws
\* botGesture from {ROCK, PAPER, SCISSORS} and records the outcome of the two;
\* the outcome is invalid, with message "No Hand Detected", iff that gesture
\* is NONE.
C10_CaptureCurrent ==
  [][CaptureStep =>
       /\ playerGesture' = playerGesture
       /\ botGesture' \in Moves
       /\ gameResult'.winner = determineWinner(playerGesture, botGesture')
       /\ gameResult'.winner = "invalid" <=> playerGesture = "NONE"
       /\ gameResult'.message = "No Hand Detected" <=> playerGesture = "NONE"]_vars

C10_Witness ==
  /\ gameState = "RESULT"
  /\ gameResult.winner = "invalid"
  /\ timeoutGesture = "NONE"
  /\ depPlayerGesture = "NONE"
  /\ score.player = 1

\* C11: the step that leaves GAME_OVER (reset) yields exactly score 0/0,
\* phase IDLE, no outcome, playerGesture NONE and botGesture NONE with no
\* timer pending, and every round played after a reset is a normal round:
\* countdown 3, 2, 1 with 3 ticks, then PLAYING, then one capture.
C11_ResetRestores ==
  /\ [][(gameState = "GAME_OVER" /\ gameState' # gameState) =>
          /\ score' = ZeroScore
          /\ gameState' = "IDLE"
          /\ gameResult' = NullResult
          /\ playerGesture' = "NONE"
          /\ botGesture' = "NONE"
          /\ timer' = NoTimer /\ timeout' = NoTimer]_vars
  /\ [](wasReset =>
          /\ gameState = "IDLE" =>
               (score = ZeroScore /\ gameResult = NullResult /\ botGesture = "NONE"
                  /\ countdown = 3)
          /\ gameState = "COUNTDOWN" =>
               (countdown = 3 - tickCount /\ tickCount < 3 /\ captureCount = 0)
          /\ gameState = "PLAYING" => (tickCount = 3 /\ captureCount = 0)
          /\ gameState = "RESULT" =>
               (tickCount = 3 /\ captureCount = 1 /\ gameResult # NullResult))

C11_Witness ==
  /\ wasReset
  /\ gameState = "RESULT"
  /\ gameResult.winner = "player"
  /\ score = [player |-> 1, bot |-> 0]
  /\ tickCount = 3
  /\ captureCount = 1

\* C12: in every state whose phase is RESULT the recorded outcome is the
\* resolution of the playerGesture and botGesture of that same state, i.e. the
\* gestures shown next to the result are the ones it was computed from.
C12_ResultSnapshot ==
  gameState = "RESULT" =>
    /\ gameResult # NullResult
    /\ gameResult.winner = determineWinner(playerGesture, botGesture)

\* C13: both scores stay within 0..WINNING_SCORE, they are never both
\* WINNING_SCORE, and in GAME_OVER exactly one of them is WINNING_SCORE.
C13_ScoreBounds ==
  /\ score.player \in 0..3
  /\ score.bot \in 0..3
  /\ ~(score.player = 3 /\ score.bot = 3)
  /\ gameState = "GAME_OVER" => (score.player = 3) # (score.bot = 3)

C13_Witness ==
  /\ gameState = "GAME_OVER"
  /\ score = [player |-> 2, bot |-> 3]
  /\ gameResult.winner = "bot"

\* a step in which the animation loop rendered a frame
FrameStep == frameTick' # frameTick

\* C15: every animation frame rendered while the phase is COUNTDOWN applies
\* the countdown shake, and no frame rendered in another phase applies it.
C15_ShakeFollowsPhase ==
  [][FrameStep => (shake' = (gameState = "COUNTDOWN"))]_vars

\* C14: for each sprite, once the commit's gesture effect has run and no
\* texture load of the sprite is in flight, the sprite's texture is the one
\* of its current gesture prop, however prop changes and load completions
\* (success or failure) interleave.
C14_TextureCurrent ==
  /\ (Settled /\ Pending(playerLoads) = 0) => playerMap.g = playerGesture
  /\ (botGesture = depBotGesture /\ Pending(botLoads) = 0) => botMap.g = botGesture

====
